---- MODULE Spec2Model ----
(***************************************************************************)
(* Model of LanguageClient::DiagnosticManager (diagnosticmanager.cpp) and  *)
(* of CppEditor::ClangdSettings / ClangdProjectSettings                    *)
(* (clangdsettings.cpp).                                                   *)
(***************************************************************************)
EXTENDS Integers, Sequences, FiniteSets, TLC

(***************************************************************************)
(* Bounds of the model.                                                    *)
(***************************************************************************)
\* longest diagnostics list a server publishes for one file
MaxDiags == 2
\* most text marks kept for one file (showDiagnostics appends on every call)
MaxMarks == 2
\* most editors showing one document
MaxEditors == 2

(***************************************************************************)
(* Part I: DiagnosticManager                                               *)
(***************************************************************************)
VARIABLES
    m_diagnostics,      \* QMap<FilePath, VersionedDiagnostics>
    m_marks,            \* QMap<FilePath, Marks>
    m_extraSelectionsId,\* Utils::Id
    documents,          \* open TextDocuments with the extra selections of their editors
    lastOp,             \* the operation executed last, with its arguments
    emitted,            \* files for which the last operation emitted textMarkCreated
    checkFailed,        \* the last operation tripped a QTC_CHECK / QTC_ASSERT
    lateIdChange        \* setExtraSelectionsId was ever called with diagnostics stored

diagVars == <<m_diagnostics, m_marks, m_extraSelectionsId, documents, lastOp,
              emitted, checkFailed, lateIdChange>>

Files == {"a.cpp", "b.cpp"}
Versions == {1, 2}
\* std::optional<T> is the set of at most one T
Optional(S) == {{}} \cup {{x} : x \in S}

\* the i-th diagnostic a server may publish: an error, one without severity, a hint, ...
Diagnostic(i) ==
    [message |-> i,
     severity |-> IF i % 3 = 1 THEN {"Error"} ELSE IF i % 3 = 2 THEN {} ELSE {"Hint"},
     line |-> i - 1]
AllDiagnostics == [i \in 1..MaxDiags |-> Diagnostic(i)]
\* the diagnostics lists published: the runs of consecutive diagnostics
DiagnosticLists ==
    {<<>>} \cup {SubSeq(AllDiagnostics, i, j) : i \in 1..MaxDiags, j \in 1..MaxDiags}

CodeWarningsSelection == "CodeWarningsSelection"
SelectionIds == {CodeWarningsSelection, "ClangdSelection"}

NoDoc == [open |-> FALSE, editors |-> <<>>]
NoSelections == [id \in SelectionIds |-> <<>>]

\* std::optional::value_or
value_or(opt, default) == IF opt = {} THEN default ELSE CHOOSE x \in opt : TRUE

\* struct VersionedDiagnostics, default constructed
DefaultVersionedDiagnostics == [version |-> {}, diagnostics |-> <<>>]
\* class Marks, default constructed
DefaultMarks == [enabled |-> TRUE, marks |-> <<>>]

\* an empty QMap
EmptyMap == [k \in {} |-> {}]
\* QMap::value(key): the stored value or a default constructed one
MapValue(map, key, default) == IF key \in DOMAIN map THEN map[key] ELSE default
\* QMap::remove(key)
MapRemove(map, key) == [k \in (DOMAIN map) \ {key} |-> map[k]]
\* QMap::operator[](key) = value
MapInsert(map, key, value) ==
    [k \in (DOMAIN map) \cup {key} |-> IF k = key THEN value ELSE map[k]]

\* TextMark::TextMark
NewTextMark(file, diag) ==
    LET isError == value_or(diag.severity, "Hint") = "Error"
    IN [file |-> file,
        line |-> diag.line + 1,
        annotation |-> diag.message,
        color |-> IF isError THEN "CodeModel_Error_TextMarkColor"
                             ELSE "CodeModel_Warning_TextMarkColor",
        icon |-> IF isError THEN "CODEMODEL_ERROR" ELSE "CODEMODEL_WARNING"]

\* DiagnosticManager::createTextMark: never returns null
createTextMark(file, diag) == NewTextMark(file, diag)

\* a createDiagnosticSelection that takes an absent severity for an error
createDiagnosticSelectionAbsentIsError(diag, textDocument) ==
    LET severity == value_or(diag.severity, "Error")
    IN [cursorIsNull |-> textDocument = "",
        position |-> diag.line,
        format |-> IF severity = "Error" THEN "C_ERROR" ELSE "C_WARNING"]

\* DiagnosticManager::createDiagnosticSelection
createDiagnosticSelection(diag, textDocument) ==
    LET severity == value_or(diag.severity, "Warning")
    IN [cursorIsNull |-> textDocument = "",
        position |-> diag.line,
        format |-> IF severity = "Error" THEN "C_ERROR" ELSE "C_WARNING"]

\* DiagnosticManager::filteredDiagnostics
filteredDiagnostics(diagnostics) == diagnostics

\* editor->editorWidget()->setExtraSelections(id, selections) on every editor of doc
SetExtraSelectionsOnAll(doc, id, selections) ==
    [doc EXCEPT !.editors =
        [i \in 1..Len(doc.editors) |-> [doc.editors[i] EXCEPT ![id] = selections]]]

\* the effect of hideDiagnostics on the documents
HiddenDocuments(file) ==
    IF documents[file].open
    THEN [documents EXCEPT ![file] =
             SetExtraSelectionsOnAll(documents[file], m_extraSelectionsId, <<>>)]
    ELSE documents

\* the record of an executed operation
Op(name, file, version, diagnostics) ==
    [name |-> name, file |-> file, version |-> version, diagnostics |-> diagnostics]
NoOp == Op("constructor", "", {}, <<>>)

DiagInit ==
    /\ m_diagnostics = EmptyMap
    /\ m_marks = EmptyMap
    /\ m_extraSelectionsId = CodeWarningsSelection
    /\ documents = [f \in Files |-> NoDoc]
    /\ lastOp = NoOp
    /\ emitted = {}
    /\ checkFailed = FALSE
    /\ lateIdChange = FALSE

\* a hideDiagnostics that drops the stored diagnostics of the file as well
hideDiagnosticsAndForget(file) ==
    /\ documents' = HiddenDocuments(file)
    /\ m_marks' = MapRemove(m_marks, file)
    /\ m_diagnostics' = MapRemove(m_diagnostics, file)
    /\ lastOp' = Op("hideDiagnostics", file, {}, <<>>)
    /\ emitted' = {}
    /\ checkFailed' = FALSE
    /\ UNCHANGED <<m_extraSelectionsId, lateIdChange>>

\* DiagnosticManager::hideDiagnostics
hideDiagnostics(file) ==
    /\ documents' = HiddenDocuments(file)
    /\ m_marks' = MapRemove(m_marks, file)
    /\ lastOp' = Op("hideDiagnostics", file, {}, <<>>)
    /\ emitted' = {}
    /\ checkFailed' = FALSE
    /\ UNCHANGED <<m_diagnostics, m_extraSelectionsId, lateIdChange>>

\* a setDiagnostics that appends to the diagnostics already stored
MergedDiagnostics(file, diagnostics, version) ==
    [version |-> version,
     diagnostics |-> MapValue(m_diagnostics, file, DefaultVersionedDiagnostics).diagnostics
                        \o filteredDiagnostics(diagnostics)]

\* the entry setDiagnostics stores: d->m_diagnostics[filePath] = {version, filtered}
NewVersionedDiagnostics(file, diagnostics, version) ==
    [version |-> version, diagnostics |-> filteredDiagnostics(diagnostics)]

\* DiagnosticManager::setDiagnostics
setDiagnostics(file, diagnostics, version) ==
    /\ documents' = HiddenDocuments(file)
    /\ m_marks' = MapRemove(m_marks, file)
    /\ m_diagnostics' = MapInsert(m_diagnostics, file,
                            NewVersionedDiagnostics(file, diagnostics, version))
    /\ lastOp' = Op("setDiagnostics", file, version, diagnostics)
    /\ emitted' = {}
    /\ checkFailed' = FALSE
    /\ UNCHANGED <<m_extraSelectionsId, lateIdChange>>

\* DiagnosticManager::disableDiagnostics: operator[] inserts a Marks entry
disableDiagnostics(file) ==
    /\ documents[file].open
    /\ LET marks == MapValue(m_marks, file, DefaultMarks)
       IN m_marks' = MapInsert(m_marks, file,
            IF ~marks.enabled
            THEN marks
            ELSE [enabled |-> FALSE,
                  marks |-> [i \in 1..Len(marks.marks) |->
                                [marks.marks[i] EXCEPT !.color = "IconsDisabledColor"]]])
    /\ lastOp' = Op("disableDiagnostics", file, {}, <<>>)
    /\ emitted' = {}
    /\ checkFailed' = FALSE
    /\ UNCHANGED <<m_diagnostics, m_extraSelectionsId, documents, lateIdChange>>

\* a showDiagnostics that does not compare versions
ShowsAnyVersion(file, version) ==
    MapValue(m_diagnostics, file, DefaultVersionedDiagnostics).diagnostics # <<>>

\* whether showDiagnostics(file, version) takes the branch that creates marks
ShowsDiagnostics(file, version) ==
    LET versionedDiagnostics == MapValue(m_diagnostics, file, DefaultVersionedDiagnostics)
    IN /\ value_or(versionedDiagnostics.version, version) = version
       /\ versionedDiagnostics.diagnostics # <<>>

\* DiagnosticManager::showDiagnostics
showDiagnostics(file, version) ==
    LET versionedDiagnostics == MapValue(m_diagnostics, file, DefaultVersionedDiagnostics)
        diags == versionedDiagnostics.diagnostics
        selections == [i \in 1..Len(diags) |-> createDiagnosticSelection(diags[i], file)]
        newMarks == [i \in 1..Len(diags) |-> createTextMark(file, diags[i])]
        marks == MapValue(m_marks, file, DefaultMarks)
    IN
    /\ lastOp' = Op("showDiagnostics", file, {version}, <<>>)
    /\ checkFailed' = FALSE
    /\ UNCHANGED <<m_diagnostics, m_extraSelectionsId, lateIdChange>>
    /\ IF ~documents[file].open
       THEN /\ emitted' = {}
            /\ UNCHANGED <<m_marks, documents>>
       ELSE IF ShowsDiagnostics(file, version)
       THEN /\ Len(marks.marks) + Len(diags) <= MaxMarks
            /\ m_marks' = MapInsert(m_marks, file,
                            [marks EXCEPT !.marks = marks.marks \o newMarks])
            /\ emitted' = IF marks.marks \o newMarks # <<>> THEN {file} ELSE {}
            /\ documents' = [documents EXCEPT ![file] =
                    SetExtraSelectionsOnAll(documents[file], m_extraSelectionsId,
                        SelectSeq(selections, LAMBDA s : ~s.cursorIsNull))]
       ELSE /\ emitted' = {}
            /\ m_marks' = m_marks
            /\ documents' = [documents EXCEPT ![file] =
                    SetExtraSelectionsOnAll(documents[file], m_extraSelectionsId, <<>>)]

\* DiagnosticManager::setExtraSelectionsId: QTC_CHECK only reports, the id is set anyway
setExtraSelectionsId(extraSelectionsId) ==
    /\ checkFailed' = (DOMAIN m_diagnostics # {})
    /\ lateIdChange' = (lateIdChange \/ DOMAIN m_diagnostics # {})
    /\ m_extraSelectionsId' = extraSelectionsId
    /\ lastOp' = Op("setExtraSelectionsId", "", {}, <<>>)
    /\ emitted' = {}
    /\ UNCHANGED <<m_diagnostics, m_marks, documents>>

\* a clearDiagnostics that forgets to hide
NoneHidden(files) == documents

\* documents after hideDiagnostics was called for every file of the set
AllHidden(files) ==
    [f \in Files |->
        IF f \in files /\ documents[f].open
        THEN SetExtraSelectionsOnAll(documents[f], m_extraSelectionsId, <<>>)
        ELSE documents[f]]

\* DiagnosticManager::clearDiagnostics
clearDiagnostics ==
    LET hidden == DOMAIN m_diagnostics
        left == [k \in (DOMAIN m_marks) \ hidden |-> m_marks[k]]
    IN
    /\ documents' = AllHidden(hidden)
    /\ m_diagnostics' = EmptyMap
    /\ checkFailed' = (DOMAIN left # {})
    /\ m_marks' = EmptyMap
    /\ lastOp' = Op("clearDiagnostics", "", {}, <<>>)
    /\ emitted' = {}
    /\ UNCHANGED <<m_extraSelectionsId, lateIdChange>>

\* the host opens a document for the file in n editors
OpenDocument(file, n) ==
    /\ ~documents[file].open
    /\ documents' = [documents EXCEPT ![file] =
                        [open |-> TRUE, editors |-> [i \in 1..n |-> NoSelections]]]
    /\ lastOp' = Op("openDocument", file, {}, <<>>)
    /\ emitted' = {}
    /\ checkFailed' = FALSE
    /\ UNCHANGED <<m_diagnostics, m_marks, m_extraSelectionsId, lateIdChange>>

\* the host closes the document and its editors
CloseDocument(file) ==
    /\ documents[file].open
    /\ documents' = [documents EXCEPT ![file] = NoDoc]
    /\ lastOp' = Op("closeDocument", file, {}, <<>>)
    /\ emitted' = {}
    /\ checkFailed' = FALSE
    /\ UNCHANGED <<m_diagnostics, m_marks, m_extraSelectionsId, lateIdChange>>

\* what Client::documentVersion may answer
Revisions == {0} \cup Versions
\* the lines a cursor may be on
CursorLines == 0..MaxDiags

\* DiagnosticManager::diagnosticsAt; a diagnostic's range overlaps the cursor when
\* the cursor is on its line
diagnosticsAt(diagnostics, filePath, cursorLine, documentRevision) ==
    IF filePath \notin DOMAIN diagnostics
    THEN <<>>
    ELSE IF documentRevision # value_or(diagnostics[filePath].version, documentRevision)
    THEN <<>>
    ELSE SelectSeq(diagnostics[filePath].diagnostics,
                   LAMBDA diagnostic : diagnostic.line = cursorLine)

\* DiagnosticManager::hasDiagnostic
hasDiagnostic(diagnostics, filePath, doc, diag, revision) ==
    IF ~doc
    THEN FALSE
    ELSE IF filePath \notin DOMAIN diagnostics
    THEN FALSE
    ELSE IF revision # value_or(diagnostics[filePath].version, revision)
    THEN FALSE
    ELSE \E i \in 1..Len(diagnostics[filePath].diagnostics) :
            diagnostics[filePath].diagnostics[i] = diag

\* DiagnosticManager::hasDiagnostics
hasDiagnostics(diagnostics, docPath, revision) ==
    IF docPath \notin DOMAIN diagnostics
    THEN FALSE
    ELSE IF revision # value_or(diagnostics[docPath].version, revision)
    THEN FALSE
    ELSE diagnostics[docPath].diagnostics # <<>>

(***************************************************************************)
(* Properties of the DiagnosticManager                                     *)
(***************************************************************************)
\* every editor of the file's document has the selection list under the id
EditorsShow(docs, file, id, selections) ==
    \A i \in 1..Len(docs[file].editors) : docs[file].editors[i][id] = selections

\* no editor of the file's document has a selection under any id
EditorsClean(docs, file) ==
    \A i \in 1..Len(docs[file].editors), id \in SelectionIds :
        docs[file].editors[i][id] = <<>>

\* what C2 says of one call showDiagnostics(f, v)
ShowDiagnosticsContract(f, v) ==
    LET stored == f \in DOMAIN m_diagnostics
        diags == IF stored THEN m_diagnostics[f].diagnostics ELSE <<>>
        matches == stored /\ (m_diagnostics[f].version = {} \/ m_diagnostics[f].version = {v})
        before == IF f \in DOMAIN m_marks THEN m_marks[f].marks ELSE <<>>
        selections == [i \in 1..Len(diags) |-> createDiagnosticSelection(diags[i], f)]
    IN IF ~documents[f].open
       THEN /\ UNCHANGED <<m_diagnostics, m_marks, m_extraSelectionsId, documents>>
            /\ emitted' = {}
       ELSE IF matches /\ Len(diags) > 0
       THEN /\ f \in DOMAIN m_marks'
            /\ Len(m_marks'[f].marks) = Len(before) + Len(diags)
            /\ SubSeq(m_marks'[f].marks, 1, Len(before)) = before
            /\ \A i \in 1..Len(diags) :
                  LET mark == m_marks'[f].marks[Len(before) + i]
                  IN mark.annotation = diags[i].message /\ mark.line = diags[i].line + 1
            /\ emitted' = {f}
            /\ EditorsShow(documents', f, m_extraSelectionsId,
                           SelectSeq(selections, LAMBDA sel : ~sel.cursorIsNull))
            /\ Len(documents'[f].editors) = Len(documents[f].editors)
       ELSE /\ m_marks' = m_marks
            /\ emitted' = {}
            /\ EditorsShow(documents', f, m_extraSelectionsId, <<>>)
            /\ Len(documents'[f].editors) = Len(documents[f].editors)

\* C2: showDiagnostics(file, version) on an open document whose stored version is
\* absent or equal to version and whose stored list is non-empty appends one mark per
\* stored diagnostic, emits textMarkCreated(file) and installs the selections with a
\* non-null cursor on every editor; otherwise it creates no mark, emits nothing and
\* installs the empty list; without an open document it changes nothing.
C2_ShowDiagnostics ==
    [][\A f \in Files, v \in Versions :
          lastOp' = Op("showDiagnostics", f, {v}, <<>>) => ShowDiagnosticsContract(f, v)]_diagVars

\* C2 witness: a show with a matching version has put two marks and two selections
\* on a document with two editors
C2_Witness ==
    /\ lastOp.name = "showDiagnostics"
    /\ emitted = {lastOp.file}
    /\ lastOp.file \in DOMAIN m_diagnostics
    /\ m_diagnostics[lastOp.file].version = lastOp.version
    /\ Len(m_marks[lastOp.file].marks) = 2
    /\ Len(documents[lastOp.file].editors) = 2
    /\ Len(documents[lastOp.file].editors[2][m_extraSelectionsId]) = 2

\* C3: setDiagnostics(file, diagnostics, version) replaces: afterwards the entry of
\* file is exactly (version, diagnostics), file has no Marks entry, the editors of
\* its document show no selection, and the diagnostics and marks of every other
\* file are as before.
C3_SetDiagnosticsReplaces ==
    [][\A f \in Files :
          lastOp'.name = "setDiagnostics" /\ lastOp'.file = f =>
            /\ f \in DOMAIN m_diagnostics'
            /\ m_diagnostics'[f] =
                  [version |-> lastOp'.version, diagnostics |-> lastOp'.diagnostics]
            /\ f \notin DOMAIN m_marks'
            /\ EditorsClean(documents', f)
            /\ \A g \in Files \ {f} :
                  /\ g \in DOMAIN m_diagnostics' <=> g \in DOMAIN m_diagnostics
                  /\ g \in DOMAIN m_diagnostics => m_diagnostics'[g] = m_diagnostics[g]
                  /\ g \in DOMAIN m_marks' <=> g \in DOMAIN m_marks
                  /\ g \in DOMAIN m_marks => m_marks'[g] = m_marks[g]]_diagVars

\* C3 witness: diagnostics were set for a file whose document is open, while the
\* other file keeps its diagnostics, its marks and its selections
C3_Witness ==
    /\ lastOp.name = "setDiagnostics"
    /\ lastOp.diagnostics # <<>>
    /\ documents[lastOp.file].open
    /\ \E g \in Files \ {lastOp.file} :
          /\ g \in DOMAIN m_diagnostics
          /\ g \in DOMAIN m_marks
          /\ m_marks[g].marks # <<>>
          /\ documents[g].open
          /\ ~EditorsClean(documents, g)

\* C4: every file with a Marks entry has a stored diagnostics entry, so the check at
\* the end of clearDiagnostics never fails.
C4_MarksHaveDiagnostics ==
    /\ DOMAIN m_marks \subseteq DOMAIN m_diagnostics
    /\ lastOp.name = "clearDiagnostics" => ~checkFailed

\* C5: as long as setExtraSelectionsId was only called with no diagnostics stored, no
\* editor holds a selection when it is called, and every hideDiagnostics(file) leaves
\* the editors of the file's document without a selection under any id.
C5_SelectionsIdBeforeDiagnostics ==
    ~lateIdChange =>
        /\ lastOp.name = "setExtraSelectionsId" => \A f \in Files : EditorsClean(documents, f)
        /\ lastOp.name = "hideDiagnostics" => EditorsClean(documents, lastOp.file)

\* C5 witness: the id was changed as documented, and a later hideDiagnostics acted on
\* an open document with diagnostics stored
C5_Witness ==
    /\ ~lateIdChange
    /\ m_extraSelectionsId # CodeWarningsSelection
    /\ lastOp.name = "hideDiagnostics"
    /\ documents[lastOp.file].open
    /\ lastOp.file \in DOMAIN m_diagnostics
    /\ m_diagnostics[lastOp.file].diagnostics # <<>>

\* the severities the code names, and the diagnostics carrying them or none
DiagnosticSeverities == {"Error", "Warning", "Hint"}
DiagnosticsOfEverySeverity ==
    {[Diagnostic(i) EXCEPT !.severity = severity] :
        i \in 1..MaxDiags, severity \in Optional(DiagnosticSeverities)}

\* the mark is drawn as an error
MarkIsError(mark) ==
    mark.color = "CodeModel_Error_TextMarkColor" /\ mark.icon = "CODEMODEL_ERROR"
\* the mark is drawn as a warning
MarkIsWarning(mark) ==
    mark.color = "CodeModel_Warning_TextMarkColor" /\ mark.icon = "CODEMODEL_WARNING"

\* mark and selection of a diagnostic are both drawn as errors when its severity is
\* Error, and both as warnings otherwise
RenderedBySeverity(diag, mark, selection) ==
    IF diag.severity = {"Error"}
    THEN MarkIsError(mark) /\ selection.format = "C_ERROR"
    ELSE MarkIsWarning(mark) /\ selection.format = "C_WARNING"

\* C11: the text mark of a diagnostic gets the error color and icon exactly when
\* its severity is Error and the warning color and icon otherwise, absent severity
\* included; its selection gets the error style exactly when the severity is Error
\* and the warning style otherwise; so the marks and selections that a
\* showDiagnostics creates agree, diagnostic by diagnostic, on error versus warning.
C11_SeverityRendering ==
    [][\A f \in Files :
          lastOp'.name = "showDiagnostics" /\ lastOp'.file = f /\ emitted' = {f} =>
            LET diags == m_diagnostics[f].diagnostics
                before == IF f \in DOMAIN m_marks THEN Len(m_marks[f].marks) ELSE 0
            IN /\ \A i \in 1..Len(diags), e \in 1..Len(documents'[f].editors) :
                     RenderedBySeverity(diags[i], m_marks'[f].marks[before + i],
                                        documents'[f].editors[e][m_extraSelectionsId][i])
               /\ \A diag \in DiagnosticsOfEverySeverity :
                     RenderedBySeverity(diag, createTextMark(f, diag),
                                        createDiagnosticSelection(diag, f))]_diagVars

\* C11 witness: a showDiagnostics has drawn an error and a diagnostic without
\* severity: an error mark and a warning mark, an error selection and a warning
\* selection in an editor
C11_Witness ==
    /\ lastOp.name = "showDiagnostics"
    /\ emitted = {lastOp.file}
    /\ \E i, j \in 1..Len(m_diagnostics[lastOp.file].diagnostics) :
          /\ m_diagnostics[lastOp.file].diagnostics[i].severity = {"Error"}
          /\ m_diagnostics[lastOp.file].diagnostics[j].severity = {}
          /\ MarkIsError(m_marks[lastOp.file].marks[i])
          /\ MarkIsWarning(m_marks[lastOp.file].marks[j])
          /\ Len(documents[lastOp.file].editors) > 0
          /\ documents[lastOp.file].editors[1][m_extraSelectionsId][i].format = "C_ERROR"
          /\ documents[lastOp.file].editors[1][m_extraSelectionsId][j].format = "C_WARNING"

\* the three queries answer the same on both stores, whatever the client's revision
SameAnswers(before, after) ==
    \A f \in Files, revision \in Revisions :
        /\ hasDiagnostics(before, f, revision) = hasDiagnostics(after, f, revision)
        /\ \A doc \in BOOLEAN, i \in 1..MaxDiags :
              hasDiagnostic(before, f, doc, Diagnostic(i), revision)
                  = hasDiagnostic(after, f, doc, Diagnostic(i), revision)
        /\ \A cursorLine \in CursorLines :
              diagnosticsAt(before, f, cursorLine, revision)
                  = diagnosticsAt(after, f, cursorLine, revision)

\* the text marks kept for the file
MarksOf(marks, f) == IF f \in DOMAIN marks THEN marks[f].marks ELSE <<>>

\* what C12 says of one hideDiagnostics(f)
HideDiagnosticsContract(f) ==
    /\ f \notin DOMAIN m_marks'
    /\ EditorsShow(documents', f, m_extraSelectionsId, <<>>)
    /\ m_diagnostics' = m_diagnostics
    /\ SameAnswers(m_diagnostics, m_diagnostics')

\* this step is a showDiagnostics(f, v) with a matching version, right after a
\* hideDiagnostics(f)
ShownAfterHide(f, v) ==
    /\ lastOp = Op("hideDiagnostics", f, {}, <<>>)
    /\ lastOp' = Op("showDiagnostics", f, {v}, <<>>)
    /\ f \in DOMAIN m_diagnostics
    /\ value_or(m_diagnostics[f].version, v) = v

\* the file has exactly one mark per stored diagnostic, in order
OneMarkPerDiagnostic(marks, f) ==
    MarksOf(marks, f) = [i \in 1..Len(m_diagnostics[f].diagnostics) |->
                            createTextMark(f, m_diagnostics[f].diagnostics[i])]

\* C12 as stated: hideDiagnostics(file) deletes the marks of the file and clears the
\* selections of its editors, leaves the stored diagnostics and versions and so the
\* answers of hasDiagnostics, hasDiagnostic and diagnosticsAt as they were, and a
\* following showDiagnostics(file, v) with a matching version recreates exactly one
\* mark per stored diagnostic.
C12_HideThenShow ==
    [][\A f \in Files :
          /\ lastOp' = Op("hideDiagnostics", f, {}, <<>>) => HideDiagnosticsContract(f)
          /\ \A v \in Versions :
                ShownAfterHide(f, v) => OneMarkPerDiagnostic(m_marks', f)]_diagVars

\* C12 with the condition of showDiagnostics: as C12_HideThenShow, but the following
\* showDiagnostics recreates the marks when a document is open for the file and
\* creates none when there is no such document.
C12_HideThenShowOpenDocument ==
    [][\A f \in Files :
          /\ lastOp' = Op("hideDiagnostics", f, {}, <<>>) => HideDiagnosticsContract(f)
          /\ \A v \in Versions :
                ShownAfterHide(f, v) =>
                    IF documents[f].open
                    THEN OneMarkPerDiagnostic(m_marks', f)
                    ELSE MarksOf(m_marks', f) = <<>>]_diagVars

\* C12 witness: hideDiagnostics has acted on a file with stored diagnostics of a
\* version, open in an editor, while the other file keeps marks and selections
C12_Witness ==
    /\ lastOp.name = "hideDiagnostics"
    /\ lastOp.file \in DOMAIN m_diagnostics
    /\ m_diagnostics[lastOp.file].diagnostics # <<>>
    /\ m_diagnostics[lastOp.file].version # {}
    /\ lastOp.file \notin DOMAIN m_marks
    /\ Len(documents[lastOp.file].editors) > 0
    /\ \E g \in Files \ {lastOp.file} :
          MarksOf(m_marks, g) # <<>> /\ ~EditorsClean(documents, g)

(***************************************************************************)
(* Part II: ClangdSettings::Data and its key-value form                    *)
(***************************************************************************)
\* most fields of a Data value that differ from a default constructed Data
MaxEdited == 2

VARIABLES
    g_defaultClangdFilePath,    \* static FilePath g_defaultClangdFilePath
    existingFiles,              \* the files FilePath::exists() finds
    clangdInPath,               \* what searchInPath("clangd") finds
    envCompletionResults,       \* QTC_CLANGD_COMPLETION_RESULTS, if it parses as an integer
    d,                          \* a ClangdSettings::Data value
    map,                        \* the Store written by d.toMap(), once written
    target,                     \* the Data object fromMap is called on
    pc                          \* position in toMap / fromMap

envVars == <<g_defaultClangdFilePath, existingFiles, clangdInPath, envCompletionResults>>
dataVars == <<d, map, target, pc>>

\* the enumerators, in declaration order
IndexingPriorities == <<"Off", "Background", "Normal", "Low">>
HeaderSourceSwitchModes == <<"BuiltinOnly", "ClangdOnly", "Both">>
CompletionRankingModels == <<"Default", "DecisionForest", "Heuristics">>

\* int(enumerator)
EnumToInt(enum, e) == (CHOOSE i \in DOMAIN enum : enum[i] = e) - 1
\* Enum(int)
IntToEnum(enum, i) == IF i + 1 \in DOMAIN enum THEN enum[i + 1] ELSE "OutOfRange"

\* QVariant
QVariant(type, value) == [type |-> type, value |-> value]
InvalidVariant == QVariant("Invalid", "")
\* QVariant::toBool
toBool(v) ==
    CASE v.type = "bool" -> v.value
      [] v.type \in {"int", "qlonglong"} -> v.value # 0
      [] v.type = "QString" -> v.value \notin {"", "0", "false"}
      [] OTHER -> FALSE
\* QVariant::toInt; the values of the model all fit an int
toInt(v) ==
    CASE v.type = "int" -> v.value
      [] v.type = "qlonglong" -> v.value
      [] v.type = "bool" -> IF v.value THEN 1 ELSE 0
      [] OTHER -> 0
\* QVariant::toLongLong
toLongLong(v) ==
    CASE v.type \in {"int", "qlonglong"} -> v.value
      [] v.type = "bool" -> IF v.value THEN 1 ELSE 0
      [] OTHER -> 0
\* QVariant::toString
toString(v) ==
    CASE v.type = "QString" -> v.value
      [] v.type = "bool" -> IF v.value THEN "true" ELSE "false"
      [] v.type \in {"int", "qlonglong"} -> ToString(v.value)
      [] OTHER -> ""
\* QVariant::toStringList
toStringList(v) ==
    CASE v.type = "QStringList" -> v.value
      [] v.type = "QString" -> <<v.value>>
      [] OTHER -> <<>>

\* Utils::Id::toSetting: the name of the id as a string
IdToSetting(id) == QVariant("QString", id)
\* Utils::Id::fromSetting: an empty string gives the invalid Id
IdFromSetting(v) == toString(v)

\* Store::value(key, defaultValue)
StoreValue(store, key, defaultValue) ==
    IF key \in DOMAIN store THEN store[key] ELSE defaultValue

\* initialClangDiagnosticConfigId
initialClangDiagnosticConfigId == "Builtin.BuildSystem"
\* ClangdSettings::defaultProjectIndexPathTemplate
defaultProjectIndexPathTemplate == "%{BuildConfig:BuildDirectory:FilePath}/.qtc_clangd"
\* ClangdSettings::defaultSessionIndexPathTemplate
defaultSessionIndexPathTemplate ==
    "%{IDE:UserResourcePath}/.qtc_clangd/%{Session:FileBaseName}"

\* a defaultCompletionResults that does not read the environment
defaultCompletionResultsOfClangd(env) == 100

\* ClangdSettings::Data::defaultCompletionResults
defaultCompletionResults(env) == IF env = {} THEN 100 ELSE CHOOSE x \in env : TRUE

\* fallbackClangdFilePath
fallbackClangdFilePath(defaultPath, existing, inPath) ==
    IF defaultPath \in existing THEN defaultPath ELSE inPath

\* a default constructed ClangdSettings::Data
DefaultData(env) ==
    [useClangd |-> TRUE,
     executableFilePath |-> "",
     indexingPriority |-> "Low",
     projectIndexPathTemplate |-> defaultProjectIndexPathTemplate,
     sessionIndexPathTemplate |-> defaultSessionIndexPathTemplate,
     headerSourceSwitchMode |-> "Both",
     completionRankingModel |-> "Default",
     autoIncludeHeaders |-> FALSE,
     workerThreadLimit |-> 0,
     documentUpdateThreshold |-> 500,
     sizeThresholdEnabled |-> FALSE,
     sizeThresholdInKb |-> 1024,
     sessionsWithOneClangd |-> <<>>,
     customDiagnosticConfigs |-> <<>>,
     diagnosticConfigId |-> initialClangDiagnosticConfigId,
     haveCheckedHardwareReqirements |-> FALSE,
     completionResults |-> defaultCompletionResults(env)]

\* ClangdSettings::Data::toMap; fallback is fallbackClangdFilePath()
toMap(data, fallback) ==
    [key \in {"UseClangdV7", "ClangdPath", "ClangdIndexing", "ClangdIndexingPriority",
              "ClangdProjectIndexPath", "ClangdSessionIndexPath",
              "ClangdHeaderSourceSwitchMode", "ClangdCompletionRankingModel",
              "ClangdHeaderInsertion", "ClangdThreadLimit", "ClangdDocumentThreshold",
              "ClangdSizeThresholdEnabled", "ClangdSizeThreshold",
              "SessionsWithOneClangd", "diagnosticConfigId", "checkedHardware",
              "completionResults"} |->
        CASE key = "UseClangdV7" -> QVariant("bool", data.useClangd)
          [] key = "ClangdPath" ->
                QVariant("QString", IF data.executableFilePath # fallback
                                    THEN data.executableFilePath ELSE "")
          [] key = "ClangdIndexing" -> QVariant("bool", data.indexingPriority # "Off")
          [] key = "ClangdIndexingPriority" ->
                QVariant("int", EnumToInt(IndexingPriorities, data.indexingPriority))
          [] key = "ClangdProjectIndexPath" -> QVariant("QString", data.projectIndexPathTemplate)
          [] key = "ClangdSessionIndexPath" -> QVariant("QString", data.sessionIndexPathTemplate)
          [] key = "ClangdHeaderSourceSwitchMode" ->
                QVariant("int", EnumToInt(HeaderSourceSwitchModes, data.headerSourceSwitchMode))
          [] key = "ClangdCompletionRankingModel" ->
                QVariant("int", EnumToInt(CompletionRankingModels, data.completionRankingModel))
          [] key = "ClangdHeaderInsertion" -> QVariant("bool", data.autoIncludeHeaders)
          [] key = "ClangdThreadLimit" -> QVariant("int", data.workerThreadLimit)
          [] key = "ClangdDocumentThreshold" -> QVariant("int", data.documentUpdateThreshold)
          [] key = "ClangdSizeThresholdEnabled" -> QVariant("bool", data.sizeThresholdEnabled)
          [] key = "ClangdSizeThreshold" -> QVariant("qlonglong", data.sizeThresholdInKb)
          [] key = "SessionsWithOneClangd" -> QVariant("QStringList", data.sessionsWithOneClangd)
          [] key = "diagnosticConfigId" -> IdToSetting(data.diagnosticConfigId)
          [] key = "checkedHardware" -> QVariant("bool", data.haveCheckedHardwareReqirements)
          [] key = "completionResults" -> QVariant("int", data.completionResults)]

\* a test of the ClangdIndexing key that gives way to a stored priority
IndexingDisabledWithoutPriority(store) ==
    /\ "ClangdIndexing" \in DOMAIN store /\ ~toBool(store["ClangdIndexing"])
    /\ "ClangdIndexingPriority" \notin DOMAIN store

\* a test of the ClangdIndexing key without its negation
IndexingEnabled(store) ==
    "ClangdIndexing" \in DOMAIN store /\ toBool(store["ClangdIndexing"])

\* it != map.end() && !it->toBool(), for it = map.find(clangdIndexingKey())
IndexingDisabled(store) ==
    "ClangdIndexing" \in DOMAIN store /\ ~toBool(store["ClangdIndexing"])

\* ClangdSettings::Data::fromMap called on the object this; customDiagnosticConfigs
\* is not part of the map and stays
fromMap(this, store, env) ==
    LET priority == IntToEnum(IndexingPriorities,
            toInt(StoreValue(store, "ClangdIndexingPriority",
                QVariant("int", EnumToInt(IndexingPriorities, this.indexingPriority)))))
    IN
    [useClangd |-> toBool(StoreValue(store, "UseClangdV7", QVariant("bool", TRUE))),
     executableFilePath |-> toString(StoreValue(store, "ClangdPath", InvalidVariant)),
     indexingPriority |-> IF IndexingDisabled(store) THEN "Off" ELSE priority,
     projectIndexPathTemplate |-> toString(StoreValue(store, "ClangdProjectIndexPath",
            QVariant("QString", defaultProjectIndexPathTemplate))),
     sessionIndexPathTemplate |-> toString(StoreValue(store, "ClangdSessionIndexPath",
            QVariant("QString", defaultSessionIndexPathTemplate))),
     headerSourceSwitchMode |-> IntToEnum(HeaderSourceSwitchModes,
            toInt(StoreValue(store, "ClangdHeaderSourceSwitchMode",
                QVariant("int", EnumToInt(HeaderSourceSwitchModes, this.headerSourceSwitchMode))))),
     completionRankingModel |-> IntToEnum(CompletionRankingModels,
            toInt(StoreValue(store, "ClangdCompletionRankingModel",
                QVariant("int", EnumToInt(CompletionRankingModels, this.completionRankingModel))))),
     autoIncludeHeaders |-> toBool(StoreValue(store, "ClangdHeaderInsertion", QVariant("bool", FALSE))),
     workerThreadLimit |-> toInt(StoreValue(store, "ClangdThreadLimit", QVariant("int", 0))),
     documentUpdateThreshold |->
        toInt(StoreValue(store, "ClangdDocumentThreshold", QVariant("int", 500))),
     sizeThresholdEnabled |->
        toBool(StoreValue(store, "ClangdSizeThresholdEnabled", QVariant("bool", FALSE))),
     sizeThresholdInKb |->
        toLongLong(StoreValue(store, "ClangdSizeThreshold", QVariant("int", 1024))),
     sessionsWithOneClangd |->
        toStringList(StoreValue(store, "SessionsWithOneClangd", InvalidVariant)),
     customDiagnosticConfigs |-> this.customDiagnosticConfigs,
     diagnosticConfigId |-> IdFromSetting(StoreValue(store, "diagnosticConfigId",
            IdToSetting(initialClangDiagnosticConfigId))),
     haveCheckedHardwareReqirements |->
        toBool(StoreValue(store, "checkedHardware", QVariant("bool", FALSE))),
     completionResults |-> toInt(StoreValue(store, "completionResults",
            QVariant("int", defaultCompletionResults(env))))]

\* the keys toMap writes for the fields of Data (customDiagnosticConfigs has none)
PersistedFields ==
    {"useClangd", "executableFilePath", "indexingPriority", "projectIndexPathTemplate",
     "sessionIndexPathTemplate", "headerSourceSwitchMode", "completionRankingModel",
     "autoIncludeHeaders", "workerThreadLimit", "documentUpdateThreshold",
     "sizeThresholdEnabled", "sizeThresholdInKb", "sessionsWithOneClangd",
     "diagnosticConfigId", "haveCheckedHardwareReqirements", "completionResults"}

ClangdPaths == {"/opt/clangd", "/usr/bin/clangd"}

\* values a field takes besides its default
FieldValues ==
    [useClangd |-> {FALSE},
     executableFilePath |-> ClangdPaths,
     indexingPriority |-> {"Off", "Background", "Normal"},
     projectIndexPathTemplate |-> {""},
     sessionIndexPathTemplate |-> {"/tmp/index"},
     headerSourceSwitchMode |-> {"BuiltinOnly", "ClangdOnly"},
     completionRankingModel |-> {"DecisionForest", "Heuristics"},
     autoIncludeHeaders |-> {TRUE},
     workerThreadLimit |-> {4},
     documentUpdateThreshold |-> {0},
     sizeThresholdEnabled |-> {TRUE},
     sizeThresholdInKb |-> {4096},
     sessionsWithOneClangd |-> {<<"s1", "s2">>},
     customDiagnosticConfigs |-> {<<"custom">>},
     diagnosticConfigId |-> {"", "Custom.Config"},
     haveCheckedHardwareReqirements |-> {TRUE},
     completionResults |-> {7}]

RECURSIVE Edited(_, _)
\* the Data values with at most n fields changed from base
Edited(base, n) ==
    IF n = 0 THEN {base}
    ELSE LET less == Edited(base, n - 1)
         IN less \cup UNION {UNION {{[x EXCEPT ![f] = v] : v \in FieldValues[f]} :
                                        f \in DOMAIN FieldValues} : x \in less}

\* the file systems considered: no clangd anywhere, or both installed
FileSystems == {{}, ClangdPaths}

DataInit ==
    /\ g_defaultClangdFilePath \in {"", "/opt/clangd"}
    /\ existingFiles \in FileSystems
    /\ clangdInPath \in {""} \cup ({"/usr/bin/clangd"} \cap existingFiles)
    /\ envCompletionResults \in Optional({50})
    /\ d \in Edited(DefaultData(envCompletionResults), MaxEdited)
    /\ target \in {DefaultData(envCompletionResults),
                   [DefaultData(envCompletionResults) EXCEPT
                        !.indexingPriority = "Normal",
                        !.headerSourceSwitchMode = "ClangdOnly",
                        !.completionRankingModel = "Heuristics",
                        !.sizeThresholdInKb = 1,
                        !.customDiagnosticConfigs = <<"other">>]}
    /\ map = EmptyMap
    /\ pc = "start"

\* a toMap that stores the executable path whatever the fallback is
ToMapPathAsConfigured ==
    /\ pc = "start"
    /\ map' = toMap(d, "")
    /\ pc' = "mapped"
    /\ UNCHANGED <<envVars, d, target>>

\* map = d.toMap()
ToMap ==
    /\ pc = "start"
    /\ map' = toMap(d, fallbackClangdFilePath(g_defaultClangdFilePath, existingFiles,
                                              clangdInPath))
    /\ pc' = "mapped"
    /\ UNCHANGED <<envVars, d, target>>

\* target.fromMap(map)
FromMap ==
    /\ pc = "mapped"
    /\ target' = fromMap(target, map, envCompletionResults)
    /\ pc' = "restored"
    /\ UNCHANGED <<envVars, d, map>>
\* most keys of a store written by toMap that are missing when it is read
MaxRemoved == 2

\* the key is missing from the store that is read: settings are saved with the keys
\* of default value left out, and older versions did not write every key
RemoveKey(key) ==
    /\ pc = "stored"
    /\ key \in DOMAIN map
    /\ Cardinality(DOMAIN toMap(d, "")) - Cardinality(DOMAIN map) < MaxRemoved
    /\ map' = MapRemove(map, key)
    /\ UNCHANGED <<envVars, d, target, pc>>

\* the store that is read holds this ClangdIndexing, whatever its
\* ClangdIndexingPriority
SetIndexing(indexing) ==
    /\ pc = "stored"
    /\ map' = MapInsert(map, "ClangdIndexing", QVariant("bool", indexing))
    /\ UNCHANGED <<envVars, d, target, pc>>

\* d.fromMap(map) and target.fromMap(map): two objects read the same store
FromMapTwice ==
    /\ pc = "stored"
    /\ d' = fromMap(d, map, envCompletionResults)
    /\ target' = fromMap(target, map, envCompletionResults)
    /\ pc' = "loaded"
    /\ UNCHANGED <<envVars, map>>


(***************************************************************************)
(* Part III: the ClangdSettings instance and ClangdProjectSettings         *)
(***************************************************************************)
VARIABLES
    m_data,                 \* ClangdSettings::instance().m_data
    settings,               \* Core::ICore::settings(): the ClangdSettings group, the
                            \* custom diagnostic configs and the pre-8.0 key of the
                            \* CppEditor group
    m_project,              \* ClangdProjectSettings::m_project ("" is a null project)
    m_useGlobalSettings,    \* ClangdProjectSettings::m_useGlobalSettings
    m_blockIndexing,        \* ClangdProjectSettings::m_blockIndexing
    m_customSettings,       \* ClangdProjectSettings::m_customSettings
    namedSettings,          \* m_project->namedSettings("ClangdSettings"), a Store
    called,                 \* the operation executed last and what it emitted and saved
    migrated                \* the pre-8.0 value loadSettings took over and no
                            \* saveSettings has written since ("" if none)

settingsVars == <<m_data, settings, m_project, m_useGlobalSettings, m_blockIndexing,
                  m_customSettings, namedSettings, called, migrated>>

Projects == {"", "project"}

\* the operation executed last: its name, the number of ClangdSettings::changed
\* signals it emitted and whether it wrote the project's named settings
Call(name, changed, saved) == [name |-> name, changed |-> changed, saved |-> saved]

\* the fallback path in the current state
Fallback == fallbackClangdFilePath(g_defaultClangdFilePath, existingFiles, clangdInPath)

\* Utils::storeToSettingsWithDefault: a value equal to its default removes the key
StoreToSettingsWithDefault(group, store, defaultStore) ==
    LET changed == {k \in DOMAIN store : store[k] # defaultStore[k]}
    IN [k \in ((DOMAIN group) \ (DOMAIN store)) \cup changed |->
            IF k \in changed THEN store[k] ELSE group[k]]

\* the settings after ClangdSettings::saveSettings of data
SavedSettings(data) ==
    [settings EXCEPT
        !.clangd = StoreToSettingsWithDefault(settings.clangd, toMap(data, Fallback),
                        toMap(DefaultData(envCompletionResults), Fallback)),
        !.configs = data.customDiagnosticConfigs]

\* the Data ClangdSettings::loadSettings reads
LoadedData ==
    LET fromStore == [fromMap(m_data, settings.clangd, envCompletionResults)
                        EXCEPT !.customDiagnosticConfigs = settings.configs]
    IN IF settings.legacy.type # "Invalid"
       THEN [fromStore EXCEPT !.diagnosticConfigId = IdFromSetting(settings.legacy)]
       ELSE fromStore

\* ClangdSettings::loadSettings
loadSettings ==
    /\ m_data' = LoadedData
    /\ settings' = IF settings.legacy.type # "Invalid"
                   THEN [settings EXCEPT !.legacy = InvalidVariant]
                   ELSE settings
    /\ migrated' = IF settings.legacy.type # "Invalid"
                   THEN IdFromSetting(settings.legacy) ELSE migrated
    /\ called' = Call("loadSettings", 0, FALSE)
    /\ UNCHANGED <<m_project, m_useGlobalSettings, m_blockIndexing, m_customSettings,
                   namedSettings>>

\* ClangdSettings::setData on the instance
setData(data) ==
    /\ IF data # m_data
       THEN /\ m_data' = data
            /\ settings' = SavedSettings(data)
            /\ migrated' = ""
            /\ called' = Call("setData", 1, FALSE)
       ELSE /\ UNCHANGED <<m_data, settings, migrated>>
            /\ called' = Call("setData", 0, FALSE)
    /\ UNCHANGED <<m_project, m_useGlobalSettings, m_blockIndexing, m_customSettings,
                   namedSettings>>

\* ClangdSettings::setUseClangdAndSave
setUseClangdAndSave(use) ==
    /\ m_data' = [m_data EXCEPT !.useClangd = use]
    /\ settings' = SavedSettings([m_data EXCEPT !.useClangd = use])
    /\ migrated' = ""
    /\ called' = Call("setUseClangdAndSave", 0, FALSE)
    /\ UNCHANGED <<m_project, m_useGlobalSettings, m_blockIndexing, m_customSettings,
                   namedSettings>>

\* a saveSettings that forgets the blockIndexing flag
ProjectStoreUnblocked(useGlobal, blocked, custom) ==
    LET data == IF ~useGlobal THEN toMap(custom, Fallback) ELSE EmptyMap
    IN [k \in (DOMAIN data) \cup {"useGlobalSettings"} |->
            CASE k = "useGlobalSettings" -> QVariant("bool", useGlobal)
              [] OTHER -> data[k]]

\* the Store ClangdProjectSettings::saveSettings writes
ProjectStore(useGlobal, blocked, custom) ==
    LET data == IF ~useGlobal THEN toMap(custom, Fallback) ELSE EmptyMap
    IN [k \in (DOMAIN data) \cup {"useGlobalSettings", "blockIndexing"} |->
            CASE k = "useGlobalSettings" -> QVariant("bool", useGlobal)
              [] k = "blockIndexing" -> QVariant("bool", blocked)
              [] OTHER -> data[k]]

\* the named settings after ClangdProjectSettings::saveSettings
SavedNamedSettings(useGlobal, blocked, custom) ==
    IF m_project = "" THEN namedSettings ELSE ProjectStore(useGlobal, blocked, custom)

\* a settings() that forgets the block
settingsUnblocked ==
    IF ~m_useGlobalSettings
    THEN [m_customSettings EXCEPT
            !.sessionsWithOneClangd = m_data.sessionsWithOneClangd,
            !.customDiagnosticConfigs = m_data.customDiagnosticConfigs]
    ELSE m_data

\* ClangdProjectSettings::settings
projectSettings ==
    LET data == IF ~m_useGlobalSettings
                THEN [m_customSettings EXCEPT
                        !.sessionsWithOneClangd = m_data.sessionsWithOneClangd,
                        !.customDiagnosticConfigs = m_data.customDiagnosticConfigs]
                ELSE m_data
    IN IF m_blockIndexing THEN [data EXCEPT !.indexingPriority = "Off"] ELSE data

\* the members of a ClangdProjectSettings before its constructor body runs
InitialUseGlobalSettings == TRUE
InitialBlockIndexing == FALSE

\* ClangdProjectSettings::ClangdProjectSettings with ClangdProjectSettings::loadSettings
Construct(project) ==
    LET data == namedSettings
        useGlobal == toBool(StoreValue(data, "useGlobalSettings", QVariant("bool", TRUE)))
        fresh == DefaultData(envCompletionResults)
    IN
    /\ m_project' = project
    /\ IF project = ""
       THEN /\ m_useGlobalSettings' = InitialUseGlobalSettings
            /\ m_blockIndexing' = InitialBlockIndexing
            /\ m_customSettings' = fresh
       ELSE /\ m_useGlobalSettings' = useGlobal
            /\ m_blockIndexing' =
                    toBool(StoreValue(data, "blockIndexing", QVariant("bool", FALSE)))
            /\ m_customSettings' =
                    IF ~useGlobal THEN fromMap(fresh, data, envCompletionResults) ELSE fresh
    /\ called' = Call("construct", 0, FALSE)
    /\ UNCHANGED <<m_data, settings, namedSettings, migrated>>

\* ClangdProjectSettings::setSettings, with ClangdSettings::setCustomDiagnosticConfigs
setSettings(data) ==
    /\ m_customSettings' = data
    /\ namedSettings' = SavedNamedSettings(m_useGlobalSettings, m_blockIndexing, data)
    /\ IF m_data.customDiagnosticConfigs = data.customDiagnosticConfigs
       THEN UNCHANGED <<m_data, settings, migrated>>
       ELSE /\ m_data' = [m_data EXCEPT
                            !.customDiagnosticConfigs = data.customDiagnosticConfigs]
            /\ settings' = SavedSettings([m_data EXCEPT
                            !.customDiagnosticConfigs = data.customDiagnosticConfigs])
            /\ migrated' = ""
    /\ called' = Call("setSettings", 1, m_project # "")
    /\ UNCHANGED <<m_project, m_useGlobalSettings, m_blockIndexing>>

\* ClangdProjectSettings::setUseGlobalSettings
setUseGlobalSettings(useGlobal) ==
    /\ m_useGlobalSettings' = useGlobal
    /\ namedSettings' = SavedNamedSettings(useGlobal, m_blockIndexing, m_customSettings)
    /\ called' = Call("setUseGlobalSettings", 1, m_project # "")
    /\ UNCHANGED <<m_data, settings, migrated, m_project, m_blockIndexing, m_customSettings>>

\* ClangdProjectSettings::setDiagnosticConfigId
setDiagnosticConfigId(configId) ==
    /\ m_customSettings' = [m_customSettings EXCEPT !.diagnosticConfigId = configId]
    /\ namedSettings' = SavedNamedSettings(m_useGlobalSettings, m_blockIndexing,
                            [m_customSettings EXCEPT !.diagnosticConfigId = configId])
    /\ called' = Call("setDiagnosticConfigId", 1, m_project # "")
    /\ UNCHANGED <<m_data, settings, migrated, m_project, m_useGlobalSettings, m_blockIndexing>>

\* an unblockIndexing that notifies like blockIndexing
UnblockedNotifying(saved) == Call("unblockIndexing", 1, saved)

\* what an unblockIndexing that switches the flag emits and saves
\* ("Do not emit changed here")
Unblocked(saved) == Call("unblockIndexing", 0, saved)

\* ClangdProjectSettings::blockIndexing
blockIndexing ==
    /\ IF m_blockIndexing
       THEN /\ UNCHANGED <<m_blockIndexing, namedSettings>>
            /\ called' = Call("blockIndexing", 0, FALSE)
       ELSE /\ m_blockIndexing' = TRUE
            /\ namedSettings' = SavedNamedSettings(m_useGlobalSettings, TRUE, m_customSettings)
            /\ called' = Call("blockIndexing", 1, m_project # "")
    /\ UNCHANGED <<m_data, settings, migrated, m_project, m_useGlobalSettings, m_customSettings>>

\* ClangdProjectSettings::unblockIndexing
unblockIndexing ==
    /\ IF ~m_blockIndexing
       THEN /\ UNCHANGED <<m_blockIndexing, namedSettings>>
            /\ called' = Call("unblockIndexing", 0, FALSE)
       ELSE /\ m_blockIndexing' = FALSE
            /\ namedSettings' = SavedNamedSettings(m_useGlobalSettings, FALSE, m_customSettings)
            /\ called' = Unblocked(m_project # "")
    /\ UNCHANGED <<m_data, settings, migrated, m_project, m_useGlobalSettings, m_customSettings>>

(***************************************************************************)
(* Part IV: ClangdSettings::clangdIncludePath and its cache                *)
(***************************************************************************)
VARIABLES
    clangdVersions,     \* what Utils::clangdVersion answers for a clangd path
    headersPathCache,   \* static QHash<FilePath, FilePath> headersPathCache
    includePath,        \* the last call of clangdIncludePath: the clangd path it was
                        \* made for, what it returned, whether it ran the lookup
    firstReturned       \* per clangd path, the first non-empty headers path returned

cacheVars == <<clangdVersions, headersPathCache, includePath, firstReturned>>

\* Utils::clangdVersion against minimumClangdVersion(): none, too old, new enough
VersionKinds == {"null", "old", "ok"}

\* ClangdSettings::clangdFilePath
clangdFilePath ==
    IF m_data.executableFilePath # "" THEN m_data.executableFilePath ELSE Fallback

\* Utils::clangdVersion of a path
clangdVersion(path) == IF path \in DOMAIN clangdVersions THEN clangdVersions[path] ELSE "null"

\* ClangdSettings::useClangd
useClangd == m_data.useClangd /\ clangdVersion(clangdFilePath) = "ok"

\* what one lookup finds on disk: the clang next to clangd, its -print-resource-dir
\* output, and which of the lib/lib64 include directories exist
\* (a fact that an earlier failure keeps the lookup from reading is left FALSE)
LookupFacts ==
    {facts \in [clangExists : BOOLEAN, finished : BOOLEAN, resourceDir : {"", "/res"},
                resourceDirExists : BOOLEAN, includeDirExists : BOOLEAN,
                includePaths : {{}, {1}, {2, 3}, {4}, 1..4}] :
        /\ facts.finished => facts.clangExists
        /\ facts.resourceDir # "" => facts.finished
        /\ facts.resourceDirExists => facts.resourceDir # ""
        /\ facts.includeDirExists => facts.resourceDirExists}

\* getClangHeadersPathFromClang
getClangHeadersPathFromClang(clangdPath, facts) ==
    IF ~facts.clangExists THEN ""
    ELSE IF ~facts.finished THEN ""
    ELSE IF facts.resourceDir = "" \/ ~facts.resourceDirExists THEN ""
    ELSE IF ~facts.includeDirExists THEN ""
    ELSE facts.resourceDir \o "/include"

\* the include paths getClangHeadersPath tries, in order: lib and lib64, each with
\* the major version and the full version
LibIncludePaths(clangdPath) ==
    <<clangdPath \o "/../lib/clang/17/include",
      clangdPath \o "/../lib/clang/17.0.1/include",
      clangdPath \o "/../lib64/clang/17/include",
      clangdPath \o "/../lib64/clang/17.0.1/include">>

\* getClangHeadersPath
getClangHeadersPath(clangdPath, facts) ==
    LET headersPath == getClangHeadersPathFromClang(clangdPath, facts)
    IN IF headersPath # "" THEN headersPath
       ELSE IF clangdVersion(clangdPath) = "null" THEN ""
       ELSE IF facts.includePaths = {} THEN ""
       ELSE LibIncludePaths(clangdPath)[CHOOSE i \in facts.includePaths :
                                            \A j \in facts.includePaths : i <= j]

\* a cache that also keeps empty results
CachedAlways(cache, clangdPath, headersPath) == MapInsert(cache, clangdPath, headersPath)

\* the cache after a lookup: if (!headersPath.isEmpty()) headersPathCache.insert(...)
Cached(cache, clangdPath, headersPath) ==
    IF headersPath # "" THEN MapInsert(cache, clangdPath, headersPath) ELSE cache

\* the record of a call of clangdIncludePath
Included(clangdPath, valid, result, lookedUp) ==
    [clangdPath |-> clangdPath, valid |-> valid, result |-> result, lookedUp |-> lookedUp]

\* ClangdSettings::clangdIncludePath
clangdIncludePath(facts) ==
    LET clangdPath == clangdFilePath
        headersPath == getClangHeadersPath(clangdPath, facts)
    IN
    /\ called' = Call("clangdIncludePath", 0, FALSE)
    /\ IF ~useClangd \/ clangdPath = "" \/ clangdPath \notin existingFiles
       THEN /\ includePath' = Included(clangdPath, FALSE, "", FALSE)
            /\ UNCHANGED <<headersPathCache, firstReturned>>
       ELSE IF clangdPath \in DOMAIN headersPathCache
       THEN /\ includePath' = Included(clangdPath, TRUE, headersPathCache[clangdPath], FALSE)
            /\ UNCHANGED <<headersPathCache, firstReturned>>
       ELSE /\ includePath' = Included(clangdPath, TRUE, headersPath, TRUE)
            /\ headersPathCache' = Cached(headersPathCache, clangdPath, headersPath)
            /\ firstReturned' =
                    IF headersPath # "" /\ clangdPath \notin DOMAIN firstReturned
                    THEN MapInsert(firstReturned, clangdPath, headersPath)
                    ELSE firstReturned
    /\ UNCHANGED <<m_data, clangdVersions>>

\* ClangdSettings::setUseClangd
setUseClangd(use) ==
    /\ m_data' = [m_data EXCEPT !.useClangd = use]
    /\ called' = Call("setUseClangd", 0, FALSE)
    /\ UNCHANGED <<clangdVersions, headersPathCache, includePath, firstReturned>>

\* ClangdSettings::setClangdFilePath
setClangdFilePath(filePath) ==
    /\ m_data' = [m_data EXCEPT !.executableFilePath = filePath]
    /\ called' = Call("setClangdFilePath", 0, FALSE)
    /\ UNCHANGED <<clangdVersions, headersPathCache, includePath, firstReturned>>

(***************************************************************************)
(* Specifications                                                          *)
(***************************************************************************)
vars == <<diagVars, envVars, dataVars, settingsVars, cacheVars>>

\* the parts a specification does not exercise stay as constructed
EnvIdle ==
    /\ g_defaultClangdFilePath = ""
    /\ existingFiles = ClangdPaths
    /\ clangdInPath = ""
    /\ envCompletionResults = {}
DataIdle ==
    /\ d = DefaultData(envCompletionResults)
    /\ target = DefaultData(envCompletionResults)
    /\ map = EmptyMap
    /\ pc = "idle"
EmptySettings == [clangd |-> EmptyMap, configs |-> <<>>, legacy |-> InvalidVariant]
SettingsIdle ==
    /\ m_data = DefaultData(envCompletionResults)
    /\ settings = EmptySettings
    /\ m_project = ""
    /\ m_useGlobalSettings = InitialUseGlobalSettings
    /\ m_blockIndexing = InitialBlockIndexing
    /\ m_customSettings = DefaultData(envCompletionResults)
    /\ namedSettings = EmptyMap
    /\ called = Call("none", 0, FALSE)
    /\ migrated = ""
CacheIdle ==
    /\ clangdVersions = [path \in ClangdPaths |-> "ok"]
    /\ headersPathCache = EmptyMap
    /\ includePath = Included("", FALSE, "", FALSE)
    /\ firstReturned = EmptyMap

\* what the DiagnosticManager leaves alone
notDiagVars == <<envVars, dataVars, settingsVars, cacheVars>>

\* the operations on the files of the set, publishing the lists of the set; callers
\* that honour the comment in setExtraSelectionsId ("should be called before any
\* diagnostics are handled") have documentedUse TRUE
DiagNextOver(files, lists, documentedUse) ==
    \/ \E f \in files, ds \in lists, v \in Optional(Versions) :
          setDiagnostics(f, ds, v) /\ UNCHANGED notDiagVars
    \/ \E f \in files : hideDiagnostics(f) /\ UNCHANGED notDiagVars
    \/ \E f \in files : disableDiagnostics(f) /\ UNCHANGED notDiagVars
    \/ \E f \in files, v \in Versions : showDiagnostics(f, v) /\ UNCHANGED notDiagVars
    \/ \E id \in SelectionIds :
          /\ documentedUse => DOMAIN m_diagnostics = {}
          /\ setExtraSelectionsId(id)
          /\ UNCHANGED notDiagVars
    \/ clearDiagnostics /\ UNCHANGED notDiagVars
    \/ \E f \in files, n \in 1..MaxEditors : OpenDocument(f, n) /\ UNCHANGED notDiagVars
    \/ \E f \in files : CloseDocument(f) /\ UNCHANGED notDiagVars

\* DiagnosticManager on every file, each publishing nothing or every diagnostic,
\* setExtraSelectionsId called as documented
DiagNext == DiagNextOver(Files, {<<>>, AllDiagnostics}, TRUE)
DiagManagerInit == DiagInit /\ EnvIdle /\ DataIdle /\ SettingsIdle /\ CacheIdle
DiagSpec == DiagManagerInit /\ [][DiagNext]_vars

\* DiagnosticManager on one file, every diagnostics list, setExtraSelectionsId called
\* at any time
SelectionIdNext == DiagNextOver({"a.cpp"}, DiagnosticLists, FALSE)
SelectionIdSpec == DiagManagerInit /\ [][SelectionIdNext]_vars

\* Data::toMap followed by Data::fromMap, for the Data values of DataInit
DataNext ==
    \/ ToMap /\ UNCHANGED <<diagVars, settingsVars, cacheVars>>
    \/ FromMap /\ UNCHANGED <<diagVars, settingsVars, cacheVars>>
DataRoundTripInit == DataInit /\ DiagInit /\ SettingsIdle /\ CacheIdle
DataSpec == DataRoundTripInit /\ [][DataNext]_vars

\* what the settings objects leave alone
notSettingsVars == <<diagVars, envVars, dataVars, cacheVars>>
\* what clangdIncludePath and the setters of the configured clangd leave alone
notCacheVars == <<diagVars, envVars, dataVars, settings, m_project, m_useGlobalSettings,
                  m_blockIndexing, m_customSettings, namedSettings, migrated>>

\* a Data value with every field changed from its default
CustomData ==
    [useClangd |-> FALSE,
     executableFilePath |-> "/usr/bin/clangd",
     indexingPriority |-> "Normal",
     projectIndexPathTemplate |-> "",
     sessionIndexPathTemplate |-> "/tmp/index",
     headerSourceSwitchMode |-> "ClangdOnly",
     completionRankingModel |-> "Heuristics",
     autoIncludeHeaders |-> TRUE,
     workerThreadLimit |-> 4,
     documentUpdateThreshold |-> 0,
     sizeThresholdEnabled |-> TRUE,
     sizeThresholdInKb |-> 4096,
     sessionsWithOneClangd |-> <<"s1", "s2">>,
     customDiagnosticConfigs |-> <<"custom">>,
     diagnosticConfigId |-> "Custom.Config",
     haveCheckedHardwareReqirements |-> TRUE,
     completionResults |-> 7]
\* the Data values handed to ClangdProjectSettings::setSettings
ProjectData ==
    {DefaultData({}), CustomData,
     [CustomData EXCEPT !.executableFilePath = "/opt/clangd", !.indexingPriority = "Off",
                        !.diagnosticConfigId = ""]}
\* the Data values handed to ClangdSettings::setData when loading and saving
EditedOnce == Edited(DefaultData({}), 1)
\* the Data values handed to ClangdSettings::setData
GlobalData ==
    {DefaultData({}),
     [DefaultData({}) EXCEPT !.indexingPriority = "Background",
                             !.sessionsWithOneClangd = <<"s1">>,
                             !.customDiagnosticConfigs = <<"global">>,
                             !.workerThreadLimit = 2]}

ProjectInit ==
    /\ g_defaultClangdFilePath \in {"", "/opt/clangd"}
    /\ existingFiles = ClangdPaths
    /\ clangdInPath = ""
    /\ envCompletionResults = {}
    /\ DataIdle /\ SettingsIdle /\ CacheIdle /\ DiagInit

\* one ClangdProjectSettings object at a time, beside the ClangdSettings instance
ProjectNext ==
    \/ \E project \in Projects : Construct(project) /\ UNCHANGED notSettingsVars
    \/ \E data \in ProjectData : setSettings(data) /\ UNCHANGED notSettingsVars
    \/ \E useGlobal \in BOOLEAN : setUseGlobalSettings(useGlobal) /\ UNCHANGED notSettingsVars
    \/ setDiagnosticConfigId("Custom.Config") /\ UNCHANGED notSettingsVars
    \/ blockIndexing /\ UNCHANGED notSettingsVars
    \/ unblockIndexing /\ UNCHANGED notSettingsVars
    \/ \E data \in GlobalData : setData(data) /\ UNCHANGED notSettingsVars
ProjectSpec == ProjectInit /\ [][ProjectNext]_vars

\* the stores a start of the program may find
LoadInit ==
    /\ EnvIdle /\ DataIdle /\ CacheIdle /\ DiagInit
    /\ m_data = DefaultData(envCompletionResults)
    /\ settings \in [clangd : {EmptyMap,
                               [k \in {"diagnosticConfigId"} |-> IdToSetting("Custom.Config")]},
                     configs : {<<>>},
                     legacy : {InvalidVariant, QVariant("QString", "Legacy.Config")}]
    /\ m_project = ""
    /\ m_useGlobalSettings = InitialUseGlobalSettings
    /\ m_blockIndexing = InitialBlockIndexing
    /\ m_customSettings = DefaultData(envCompletionResults)
    /\ namedSettings = EmptyMap
    /\ called = Call("none", 0, FALSE)
    /\ migrated = ""

\* the ClangdSettings instance loading and saving
LoadNext ==
    \/ loadSettings /\ UNCHANGED notSettingsVars
    \/ \E data \in EditedOnce : setData(data) /\ UNCHANGED notSettingsVars
    \/ \E use \in BOOLEAN : setUseClangdAndSave(use) /\ UNCHANGED notSettingsVars
LoadSpec == LoadInit /\ [][LoadNext]_vars

CacheInit ==
    /\ g_defaultClangdFilePath = ""
    /\ existingFiles \in {ClangdPaths, {"/opt/clangd"}}
    /\ clangdInPath \in {"", "/opt/clangd"}
    /\ envCompletionResults = {}
    /\ DataIdle /\ SettingsIdle /\ DiagInit
    /\ clangdVersions \in {[path \in ClangdPaths |-> "ok"],
                           [path \in ClangdPaths |-> IF path = "/opt/clangd" THEN "ok" ELSE "old"],
                           [path \in ClangdPaths |-> IF path = "/opt/clangd" THEN "null" ELSE "ok"]}
    /\ headersPathCache = EmptyMap
    /\ includePath = Included("", FALSE, "", FALSE)
    /\ firstReturned = EmptyMap

\* calls of clangdIncludePath while the configured clangd changes
CacheNext ==
    \/ \E facts \in LookupFacts : clangdIncludePath(facts) /\ UNCHANGED notCacheVars
    \/ \E use \in BOOLEAN : setUseClangd(use) /\ UNCHANGED notCacheVars
    \/ \E filePath \in ClangdPaths \cup {""} : setClangdFilePath(filePath) /\ UNCHANGED notCacheVars
CacheSpec == CacheInit /\ [][CacheNext]_vars

\* a store written by toMap, and two Data objects that will read it
StoreInit ==
    /\ g_defaultClangdFilePath = ""
    /\ existingFiles = ClangdPaths
    /\ clangdInPath = ""
    /\ envCompletionResults \in Optional({50})
    /\ SettingsIdle /\ CacheIdle /\ DiagInit
    /\ d \in {DefaultData(envCompletionResults), CustomData}
    /\ target \in {DefaultData(envCompletionResults), CustomData,
                   [CustomData EXCEPT !.indexingPriority = "Off"]}
    /\ map \in {toMap(data, Fallback) : data \in {d, target}}
    /\ pc = "stored"

\* stores with keys missing or with another ClangdIndexing, read by fromMap
StoreNext ==
    \/ \E key \in DOMAIN map : RemoveKey(key) /\ UNCHANGED <<diagVars, settingsVars, cacheVars>>
    \/ \E indexing \in BOOLEAN :
          SetIndexing(indexing) /\ UNCHANGED <<diagVars, settingsVars, cacheVars>>
    \/ FromMapTwice /\ UNCHANGED <<diagVars, settingsVars, cacheVars>>
StoreSpec == StoreInit /\ [][StoreNext]_vars

(***************************************************************************)
(* Properties of ClangdSettings and ClangdProjectSettings                  *)
(***************************************************************************)
\* C1: fromMap(toMap(d)) restores every persisted field of d other than the
\* executable path, whatever the object fromMap is called on held before.
C1_RoundTrip ==
    pc = "restored" =>
        \A field \in PersistedFields \ {"executableFilePath"} : target[field] = d[field]

\* C1 witness: a Data with indexing off and an invalid diagnostic config id went
\* through the map into an object that held other values
C1_Witness ==
    /\ pc = "restored"
    /\ d.indexingPriority = "Off"
    /\ d.diagnosticConfigId = ""
    /\ target.indexingPriority = "Off"
    /\ target.customDiagnosticConfigs = <<"other">>

\* C6: settings() is the global data when useGlobalSettings is set, else the custom
\* data with sessionsWithOneClangd and customDiagnosticConfigs of the global data;
\* indexingPriority is Off whenever indexing is blocked, and the block changes no
\* other field.
C6_ProjectSettings ==
    \A field \in DOMAIN projectSettings :
        projectSettings[field] =
            IF field = "indexingPriority" /\ m_blockIndexing THEN "Off"
            ELSE IF m_useGlobalSettings
                    \/ field \in {"sessionsWithOneClangd", "customDiagnosticConfigs"}
                 THEN m_data[field]
                 ELSE m_customSettings[field]

\* C6 witness: custom settings with indexing blocked, differing from the global
\* data in priority and sessions
C6_Witness ==
    /\ ~m_useGlobalSettings
    /\ m_blockIndexing
    /\ m_customSettings.indexingPriority = "Normal"
    /\ m_data.indexingPriority = "Background"
    /\ m_data.sessionsWithOneClangd # m_customSettings.sessionsWithOneClangd

\* C7: unblockIndexing never emits ClangdSettings::changed; blockIndexing emits it
\* exactly when it switches the flag from unblocked to blocked; a call that finds
\* the flag in the requested state neither saves nor emits.
C7_BlockIndexing ==
    [][/\ called'.name = "unblockIndexing" =>
            /\ called'.changed = 0
            /\ ~m_blockIndexing'
            /\ ~m_blockIndexing =>
                    ~called'.saved /\ namedSettings' = namedSettings
       /\ called'.name = "blockIndexing" =>
            /\ m_blockIndexing'
            /\ called'.changed = (IF ~m_blockIndexing THEN 1 ELSE 0)
            /\ m_blockIndexing =>
                    ~called'.saved /\ namedSettings' = namedSettings]_vars

\* C7 witness: an unblockIndexing that switched the flag and saved it for a project
C7_Witness ==
    /\ called.name = "unblockIndexing"
    /\ called.saved
    /\ ~m_blockIndexing
    /\ m_project # ""
    /\ ~toBool(namedSettings["blockIndexing"])

\* C8: once clangdIncludePath has returned a non-empty headers path for a clangd
\* path, every later valid call for that path returns it without a lookup; an empty
\* lookup result is never cached, so the next call looks up again; a call with
\* useClangd() false or the clangd path empty or missing returns the empty path and
\* leaves the cache alone.
C8_IncludePathCache ==
    [][called'.name = "clangdIncludePath" =>
        LET path == clangdFilePath
            call == includePath'
        IN /\ call.clangdPath = path
           /\ call.valid <=> (useClangd /\ path # "" /\ path \in existingFiles)
           /\ ~call.valid => call.result = "" /\ headersPathCache' = headersPathCache
           /\ call.valid /\ path \in DOMAIN firstReturned =>
                    call.result = firstReturned[path] /\ ~call.lookedUp
           /\ call.valid /\ path \notin DOMAIN firstReturned => call.lookedUp
           /\ call.lookedUp /\ call.result = "" => headersPathCache' = headersPathCache
           /\ \A cached \in DOMAIN headersPathCache' : headersPathCache'[cached] # ""]_vars

\* C8 witness: a call answered from the cache while another clangd path is cached too
C8_Witness ==
    /\ called.name = "clangdIncludePath"
    /\ includePath.valid
    /\ ~includePath.lookedUp
    /\ includePath.result # ""
    /\ DOMAIN headersPathCache = ClangdPaths

\* C9: a loadSettings that finds the pre-8.0 key takes its value as
\* diagnosticConfigId and invalidates the key; until a saveSettings, every later
\* loadSettings still yields that value.
C9_MigrationKept ==
    called.name = "loadSettings" =>
        /\ settings.legacy.type = "Invalid"
        /\ migrated # "" => m_data.diagnosticConfigId = migrated

\* what C10 says of the fields of the set, the executable path coming back as given
ProjectRoundTrip(fields, executableFilePath) ==
    /\ called'.name = "construct" /\ m_project' # ""
       /\ namedSettings = ProjectStore(m_useGlobalSettings, m_blockIndexing, m_customSettings) =>
            /\ m_useGlobalSettings' = m_useGlobalSettings
            /\ m_blockIndexing' = m_blockIndexing
            /\ ~m_useGlobalSettings =>
                    /\ \A field \in fields : m_customSettings'[field] = m_customSettings[field]
                    /\ m_customSettings'.executableFilePath = executableFilePath
            /\ m_useGlobalSettings =>
                    DOMAIN namedSettings = {"useGlobalSettings", "blockIndexing"}
    /\ called'.name = "construct" /\ m_project' = "" =>
            /\ m_useGlobalSettings' /\ ~m_blockIndexing'
            /\ namedSettings' = namedSettings
    /\ m_project = "" /\ called'.name # "construct" => namedSettings' = namedSettings

\* C10 as stated: saveSettings, then loadSettings in a fresh object of the project,
\* restores both flags and, unless the global settings are used, every persisted
\* field of the custom settings; with the global settings in use the store holds
\* the two flags only; with a null project neither operation does anything.
C10_ProjectRoundTrip ==
    [][ProjectRoundTrip(PersistedFields, m_customSettings.executableFilePath)]_vars

\* C10 amended: as C10, but the executable path comes back empty when it was the
\* fallback clangd path when the settings were saved.
C10_ProjectRoundTripButFallback ==
    [][ProjectRoundTrip(PersistedFields \ {"executableFilePath"},
            IF m_customSettings.executableFilePath = Fallback
            THEN "" ELSE m_customSettings.executableFilePath)]_vars

\* C10 witness: a fresh object has loaded custom settings, indexing blocked, whose
\* executable path was the fallback path
C10_Witness ==
    /\ called.name = "construct"
    /\ m_project = "project"
    /\ ~m_useGlobalSettings
    /\ m_blockIndexing
    /\ Fallback = "/opt/clangd"
    /\ m_customSettings.workerThreadLimit = 4
    /\ m_customSettings.executableFilePath = ""

\* ClangdSettings::clangdFilePath of a ClangdSettings holding data
clangdFilePathOf(data) ==
    IF data.executableFilePath # "" THEN data.executableFilePath ELSE Fallback

\* C13: toMap writes an empty ClangdPath when executableFilePath equals the fallback
\* clangd path (the registered default path if it exists, else the clangd found in
\* PATH) and the configured path otherwise; clangdFilePath() is the configured path
\* when that is non-empty and the fallback otherwise; so with an unchanged fallback
\* clangdFilePath() is the same before and after a toMap/fromMap round trip.
C13_ClangdPathRoundTrip ==
    /\ Fallback = IF g_defaultClangdFilePath \in existingFiles
                  THEN g_defaultClangdFilePath ELSE clangdInPath
    /\ pc \in {"mapped", "restored"} =>
            map["ClangdPath"] = QVariant("QString", IF d.executableFilePath = Fallback
                                                    THEN "" ELSE d.executableFilePath)
    /\ \A data \in {d, target} :
            clangdFilePathOf(data) = IF data.executableFilePath # ""
                                     THEN data.executableFilePath ELSE Fallback
    /\ pc = "restored" => clangdFilePathOf(target) = clangdFilePathOf(d)

\* C13 witness: the configured path was the registered default path, an existing
\* file; the map held an empty ClangdPath, the restored Data has no path of its own
\* and clangdFilePath() is the default path again
C13_Witness ==
    /\ pc = "restored"
    /\ Fallback = "/opt/clangd"
    /\ d.executableFilePath = "/opt/clangd"
    /\ map["ClangdPath"] = QVariant("QString", "")
    /\ target.executableFilePath = ""
    /\ clangdFilePathOf(target) = "/opt/clangd"

\* the key holds this value in the store read
Holds(key, type, value) == key \in DOMAIN map /\ map[key] = QVariant(type, value)

\* C14: fromMap sets indexingPriority to Off whenever the map holds
\* ClangdIndexing = false, whatever ClangdIndexingPriority says, and otherwise to the
\* stored ClangdIndexingPriority; toMap writes ClangdIndexing as true exactly when
\* indexingPriority is not Off, so the two keys that toMap writes never disagree.
C14_IndexingKeys ==
    /\ pc = "loaded" =>
          \A data \in {d, target} :
              IF Holds("ClangdIndexing", "bool", FALSE)
              THEN data.indexingPriority = "Off"
              ELSE \A i \in DOMAIN IndexingPriorities :
                      Holds("ClangdIndexingPriority", "int", i - 1) =>
                          data.indexingPriority = IndexingPriorities[i]
    /\ \A data \in {d, target} :
          LET written == toMap(data, Fallback)
          IN /\ written["ClangdIndexing"] = QVariant("bool", data.indexingPriority # "Off")
             /\ written["ClangdIndexing"] = QVariant("bool", FALSE)
                    <=> written["ClangdIndexingPriority"] = QVariant("int", 0)

\* C14 witness: a store with ClangdIndexing = false and the priority Normal was
\* read, and both objects have the priority Off
C14_Witness ==
    /\ pc = "loaded"
    /\ Holds("ClangdIndexing", "bool", FALSE)
    /\ Holds("ClangdIndexingPriority", "int", 2)
    /\ d.indexingPriority = "Off"
    /\ target.indexingPriority = "Off"

\* the key of each persisted field
KeyOf ==
    [useClangd |-> "UseClangdV7",
     executableFilePath |-> "ClangdPath",
     indexingPriority |-> "ClangdIndexingPriority",
     projectIndexPathTemplate |-> "ClangdProjectIndexPath",
     sessionIndexPathTemplate |-> "ClangdSessionIndexPath",
     headerSourceSwitchMode |-> "ClangdHeaderSourceSwitchMode",
     completionRankingModel |-> "ClangdCompletionRankingModel",
     autoIncludeHeaders |-> "ClangdHeaderInsertion",
     workerThreadLimit |-> "ClangdThreadLimit",
     documentUpdateThreshold |-> "ClangdDocumentThreshold",
     sizeThresholdEnabled |-> "ClangdSizeThresholdEnabled",
     sizeThresholdInKb |-> "ClangdSizeThreshold",
     sessionsWithOneClangd |-> "SessionsWithOneClangd",
     diagnosticConfigId |-> "diagnosticConfigId",
     haveCheckedHardwareReqirements |-> "checkedHardware",
     completionResults |-> "completionResults"]

\* the defaults that fromMap names for absent keys
FixedDefaults ==
    [useClangd |-> TRUE,
     executableFilePath |-> "",
     projectIndexPathTemplate |-> defaultProjectIndexPathTemplate,
     sessionIndexPathTemplate |-> defaultSessionIndexPathTemplate,
     autoIncludeHeaders |-> FALSE,
     workerThreadLimit |-> 0,
     documentUpdateThreshold |-> 500,
     sizeThresholdEnabled |-> FALSE,
     sizeThresholdInKb |-> 1024,
     sessionsWithOneClangd |-> <<>>,
     diagnosticConfigId |-> initialClangDiagnosticConfigId,
     haveCheckedHardwareReqirements |-> FALSE,
     completionResults |-> IF envCompletionResults = {} THEN 100
                           ELSE CHOOSE x \in envCompletionResults : TRUE]

\* the fields whose default fromMap takes from the object it is called on
FieldsDefaultingToThis ==
    {"indexingPriority", "headerSourceSwitchMode", "completionRankingModel"}

\* data has the fixed default in every field of FixedDefaults whose key the store lacks
HasFixedDefaults(data, store) ==
    \A field \in DOMAIN FixedDefaults :
        KeyOf[field] \notin DOMAIN store => data[field] = FixedDefaults[field]

\* C15 as stated: what fromMap(map) leaves in a Data is a function of the map and of
\* QTC_CLANGD_COMPLETION_RESULTS alone: two objects that read the same map agree on
\* every persisted field, whatever they held before, and a key absent from the map
\* yields its fixed default.
C15_FromMapOfMapAlone ==
    pc = "loaded" =>
        /\ \A field \in PersistedFields : d[field] = target[field]
        /\ HasFixedDefaults(d, map) /\ HasFixedDefaults(target, map)

\* result is what this.fromMap(store) leaves in the three fields whose default is
\* the value held before
DefaultsToThis(this, result, store) ==
    /\ result.indexingPriority =
            IF "ClangdIndexing" \in DOMAIN store /\ store["ClangdIndexing"] = QVariant("bool", FALSE)
            THEN "Off"
            ELSE IF "ClangdIndexingPriority" \in DOMAIN store
            THEN IndexingPriorities[store["ClangdIndexingPriority"].value + 1]
            ELSE this.indexingPriority
    /\ result.headerSourceSwitchMode =
            IF "ClangdHeaderSourceSwitchMode" \in DOMAIN store
            THEN HeaderSourceSwitchModes[store["ClangdHeaderSourceSwitchMode"].value + 1]
            ELSE this.headerSourceSwitchMode
    /\ result.completionRankingModel =
            IF "ClangdCompletionRankingModel" \in DOMAIN store
            THEN CompletionRankingModels[store["ClangdCompletionRankingModel"].value + 1]
            ELSE this.completionRankingModel

\* C15 amended: two objects that read the same map agree on every persisted field
\* but indexingPriority, headerSourceSwitchMode and completionRankingModel, and an
\* absent key of those fields yields its fixed default; each of the three fields
\* comes from the map when its key is there and otherwise keeps the value the
\* object held before the call, indexingPriority being Off whenever the map holds
\* ClangdIndexing = false.
C15_FromMapButEnumDefaults ==
    [][pc = "stored" /\ pc' = "loaded" =>
          /\ \A field \in PersistedFields \ FieldsDefaultingToThis :
                d'[field] = target'[field]
          /\ HasFixedDefaults(d', map) /\ HasFixedDefaults(target', map)
          /\ DefaultsToThis(d, d', map)
          /\ DefaultsToThis(target, target', map)]_vars

\* C15 witness: with QTC_CLANGD_COMPLETION_RESULTS set, two objects have read a map
\* without completionResults and without ClangdIndexingPriority: both have the
\* completion results of the environment, and each has its own indexing priority
C15_Witness ==
    /\ pc = "loaded"
    /\ envCompletionResults = {50}
    /\ "completionResults" \notin DOMAIN map
    /\ "ClangdIndexingPriority" \notin DOMAIN map
    /\ d.completionResults = 50
    /\ target.completionResults = 50
    /\ d.indexingPriority # target.indexingPriority

====
